---- MODULE Spec2Model ----
(***************************************************************************)
(* Payment-gated MCP transport of x402-mcp                                 *)
(* (src/src/server.ts, class X402StreamableHTTPServerTransport).           *)
(*                                                                         *)
(* The transport wraps the SDK's StreamableHTTPServerTransport in JSON     *)
(* response mode.  One transport instance serves several HTTP requests;    *)
(* the requests interleave at the two awaits on the facilitator (verify in *)
(* handleRequest, settle in settlePayment), at the SDK's read of a raw     *)
(* body, and while the RPC handlers run.                                   *)
(*                                                                         *)
(* Optional values (null / undefined in the source) are sequences of       *)
(* length at most one: <<>> is "no value", <<v>> is the value v.           *)
(***************************************************************************)
EXTENDS Naturals, Sequences, FiniteSets, TLC

\* ------------------------------------------------------------------ bounds
\* number of HTTP requests the transport instance receives
MaxReq == 2
\* JSON-RPC request ids the callers choose from (1..MaxId)
MaxId == 2
\* longest JSON-RPC batch in one HTTP body
MaxBatch == 2
\* JSON-RPC messages the transport instance receives in all its HTTP bodies
MaxCalls == 2

ReqIds == 1..MaxReq
CallIds == 1..MaxId

\* ------------------------------------------------------------ configuration
\* toolPricing: Record<string, Price>;  <<>> is "undefined" (tool not priced).
\* "oops" is a price string that processPriceToAtomicAmount cannot convert.
ToolNames == {"A", "B", "bad", "free"}

toolPricing ==
  [n \in ToolNames |->
     CASE n = "A" -> <<"$0.01">>
       [] n = "B" -> <<"$0.02">>
       [] n = "bad" -> <<"oops">>
       [] OTHER -> <<>>]

\* processPriceToAtomicAmount(price, network): <<amount>> or <<>> ({error}).
processPriceToAtomicAmount(price) ==
  CASE price = "$0.01" -> <<10000>>
    [] price = "$0.02" -> <<20000>>
    [] OTHER -> <<>>

\* getPaymentRequirementsForTool throws exactly when the conversion fails.
RequirementsThrow(price) == processPriceToAtomicAmount(price) = <<>>

\* getPaymentRequirementsForTool(toolName, price): the one-element list.
getPaymentRequirementsForTool(toolName, price) ==
  << [scheme |-> "exact",
      network |-> "base-sepolia",
      maxAmountRequired |-> processPriceToAtomicAmount(price)[1],
      resource |-> toolName] >>

\* faulty variant of findMatchingPaymentRequirements: the network is not compared
findMatchingPaymentRequirements_schemeOnly(reqs, payment) ==
  LET hits == { i \in 1..Len(reqs) : reqs[i].scheme = payment.scheme }
  IN IF hits = {} THEN <<>>
     ELSE << reqs[CHOOSE i \in hits : \A j \in hits : i <= j] >>

\* findMatchingPaymentRequirements of x402/shared: the first requirement with
\* the payment's scheme and network, or undefined.
findMatchingPaymentRequirements(reqs, payment) ==
  LET hits == { i \in 1..Len(reqs) :
                  /\ reqs[i].scheme = payment.scheme
                  /\ reqs[i].network = payment.network }
  IN IF hits = {} THEN <<>>
     ELSE << reqs[CHOOSE i \in hits : \A j \in hits : i <= j] >>

\* --------------------------------------------------------------- messages
\* A JSON-RPC request: method, params.name when it is a string (else <<>>), id.
Methods == {"tools/call", "initialize"}

MsgShapes ==
  [method : {"tools/call"}, name : { <<n>> : n \in ToolNames } \cup { <<>> }]
    \cup [method : {"initialize"}, name : { <<>> }]

Msg(shape, id) == [method |-> shape.method, name |-> shape.name, id |-> id]

\* isToolCallParams(params)
isToolCallParams(msg) == msg.name # <<>>

\* bodies: 1..MaxBatch messages with ascending, distinct ids
IdSeqs(n) == { s \in [1..n -> CallIds] : \A i, j \in 1..n : i < j => s[i] < s[j] }

Bodies ==
  UNION { { [i \in 1..n |-> Msg(sh[i], ids[i])] :
              sh \in [1..n -> MsgShapes], ids \in IdSeqs(n) } :
          n \in 1..MaxBatch }

\* the X-PAYMENT header of a request: absent, multi-valued (string[]),
\* a string decodePayment rejects, or an encoded payment payload
HeaderKinds == {"absent", "multi", "garbage", "proof", "othernet"}

\* the tool a message calls (<<>>: not a well-formed tools/call)
CalledTool(msg) ==
  IF msg.method = "tools/call" /\ msg.name # <<>> THEN msg.name ELSE <<>>

\* exact.evm.decodePayment: throws on "garbage"; the proof of request r
\* carries nonce r (every request signs its own authorization)
\* faulty variant of DecodeThrows: the decoder accepts any string
DecodeThrows_never(hdr) == FALSE

DecodeThrows(hdr) == hdr = "garbage"

decodePayment(hdr, r) ==
  [scheme |-> "exact",
   network |-> IF hdr = "othernet" THEN "base" ELSE "base-sepolia",
   nonce |-> r]


\* settleResponseHeader of x402/types: base64 of the JSON of the receipt
settleResponseHeader(settleResponse) == <<"base64", settleResponse>>

\* the facilitator's receipt for a payment (settle resolved)
Receipt(payment) ==
  [success |-> TRUE, transaction |-> payment.nonce, network |-> payment.network]

\* ------------------------------------------------------------------ state
VARIABLES
  pendingPayment,          \* PaymentInfo | null
  currentResponse,         \* ServerResponse | null (a response is named by its request)
  requestPaymentMap,       \* Map<id, PaymentInfo>
  settlementMap,           \* Map<id, SettlementInfo>
  responsePaymentHeaders,  \* Map<ServerResponse, string>
  http,                    \* the HTTP requests and what was written to their responses
  requestToStream,         \* SDK: _requestToStreamMapping (0: no entry)
  responseMap,             \* SDK: _requestResponseMap
  rpc,                     \* RPC layer: calls delivered to the original onmessage, still running
  sends,                   \* send() invocations suspended in `await settle(...)`
  verifyLog,               \* history: verify invocations
  settleLog,               \* history: settle invocations and how each ended
  fwdLog,                   \* history: messages handed to super.send
  clientFetch,             \* client: one call of fetchWithPayment
  apiKeyHook,              \* proxy: one call of a method of ApiKeyHook
  construction,            \* one construction of a server transport
  mcpRequest               \* example server: one request to POST /mcp

vars == << pendingPayment, currentResponse, requestPaymentMap, settlementMap,
           responsePaymentHeaders, http, requestToStream, responseMap, rpc,
           sends, verifyLog, settleLog, fwdLog,
           clientFetch, apiKeyHook, construction, mcpRequest >>

\* the state of the server transport while it handles requests
serverVars == << pendingPayment, currentResponse, requestPaymentMap, settlementMap,
                 responsePaymentHeaders, http, requestToStream, responseMap, rpc,
                 sends, verifyLog, settleLog, fwdLog >>

\* the state of the other components: the client's fetch wrapper, the
\* proxy's hook, the construction of a transport, and the payment
\* middleware of the example server
otherVars == << clientFetch, apiKeyHook, construction, mcpRequest >>

transportVars == << pendingPayment, currentResponse, requestPaymentMap,
                    settlementMap, responsePaymentHeaders >>

IdleReq ==
  [st |-> "idle", method |-> "", parsed |-> FALSE, hdr |-> "unread",
   body |-> <<>>, len |-> 0, priced |-> <<>>, status |-> 0, ended |-> FALSE,
   xpr |-> <<>>, error |-> "", accepts |-> <<>>, out |-> {},
   forwarded |-> FALSE, verified |-> <<>>]

\* the fields of a transport after construction, no request received yet
ServerInit ==
  /\ pendingPayment = <<>>
  /\ currentResponse = <<>>
  /\ requestPaymentMap = [i \in CallIds |-> <<>>]
  /\ settlementMap = [i \in CallIds |-> <<>>]
  /\ responsePaymentHeaders = [r \in ReqIds |-> <<>>]
  /\ http = [r \in ReqIds |-> IdleReq]
  /\ requestToStream = [i \in CallIds |-> 0]
  /\ responseMap = [i \in CallIds |-> <<>>]
  /\ rpc = {}
  /\ sends = {}
  /\ verifyLog = {}
  /\ settleLog = {}
  /\ fwdLog = {}

\* a transport constructed with JSON responses, as every caller in the
\* repository constructs it; the other components are not in use
Init ==
  /\ ServerInit
  /\ clientFetch = <<>>
  /\ apiKeyHook = <<>>
  /\ construction = <<>>
  /\ mcpRequest = <<>>

\* ------------------------------------------------------- handleRequest gate
\* the predicate of messages.find(...) in handleRequest
IsPaidToolCall(msg) ==
  /\ msg.method = "tools/call"
  /\ msg.name # <<>>
  /\ toolPricing[msg.name[1]] # <<>>

\* faulty variant of toolCall: only the first message of the body is examined
toolCall_firstOnly(messages) == IF IsPaidToolCall(messages[1]) THEN 1 ELSE 0

\* messages.find(...): index of the first paid tool call, 0 when there is none
toolCall(messages) ==
  LET hits == { i \in 1..Len(messages) : IsPaidToolCall(messages[i]) }
  IN IF hits = {} THEN 0 ELSE CHOOSE i \in hits : \A j \in hits : i <= j

\* the names of the operations of the Pricing Table that a body calls, in order
InPricingTable(n) == n \in {"A", "B", "bad"}

PricedCalls(body) ==
  LET F[i \in 0..Len(body)] ==
        IF i = 0 THEN <<>>
        ELSE IF /\ body[i].method = "tools/call"
                /\ body[i].name # <<>>
                /\ InPricingTable(body[i].name[1])
             THEN Append(F[i-1], body[i].name[1])
             ELSE F[i-1]
  IN F[Len(body)]

\* the writeHead hook of handleRequest: [xpr: header written, map: the map after]
writeHead(r, hasHeaders, map) ==
  IF map[r] # <<>> /\ hasHeaders
  THEN [xpr |-> map[r], map |-> [map EXCEPT ![r] = <<>>]]
  ELSE [xpr |-> <<>>, map |-> map]

\* faulty variant of Reject402: the 402 written when verify throws carries no
\* accepts list
Reject402_bareCatch(rec, r, toolName, error) ==
  LET price == toolPricing[toolName][1]
      w == writeHead(r, FALSE, responsePaymentHeaders)
  IN IF RequirementsThrow(price)
     THEN [rec EXCEPT !.st = "threw", !.status = 402, !.xpr = w.xpr, !.body = <<>>]
     ELSE [rec EXCEPT !.st = "rejected", !.status = 402, !.xpr = w.xpr,
                      !.ended = TRUE, !.error = error, !.body = <<>>,
                      !.accepts = IF error = "error.message" THEN <<>>
                                  ELSE getPaymentRequirementsForTool(toolName, price)]

\* faulty variant of Reject402: the return after the 402 is missing, so the
\* request goes on to super.handleRequest
Reject402_fallsThrough(rec, r, toolName, error) ==
  LET price == toolPricing[toolName][1]
      w == writeHead(r, FALSE, responsePaymentHeaders)
  IN IF RequirementsThrow(price)
     THEN [rec EXCEPT !.st = "threw", !.status = 402, !.xpr = w.xpr, !.body = <<>>]
     ELSE [rec EXCEPT !.st = "rejected", !.status = 402, !.xpr = w.xpr,
                      !.ended = TRUE, !.error = error, !.body = <<>>,
                      !.forwarded = TRUE,
                      !.accepts = getPaymentRequirementsForTool(toolName, price)]

\* res.writeHead(402).end(JSON.stringify({x402Version, error, accepts})):
\* writeHead runs first; building accepts throws when the price is bad
Reject402(rec, r, toolName, error) ==
  LET price == toolPricing[toolName][1]
      w == writeHead(r, FALSE, responsePaymentHeaders)
  IN IF RequirementsThrow(price)
     THEN [rec EXCEPT !.st = "threw", !.status = 402, !.xpr = w.xpr, !.body = <<>>]
     ELSE [rec EXCEPT !.st = "rejected", !.status = 402, !.xpr = w.xpr,
                      !.ended = TRUE, !.error = error, !.body = <<>>,
                      !.accepts = getPaymentRequirementsForTool(toolName, price)]


\* ------------------------------------------------- inbound message events
\* the condition of the wrapper installed by setupMessageInterception under
\* which it records the pending payment for the message's id
\* (every message of the model is a JSON-RPC request with an id)
ClaimsPayment(msg, pend) ==
  /\ msg.method = "tools/call"
  /\ isToolCallParams(msg)
  /\ toolPricing[msg.name[1]] # <<>>
  /\ pend # <<>>

\* requestPaymentMap after the wrapper has seen every message of a body
onmessage(map, pend, body) ==
  [i \in CallIds |->
     IF \E k \in 1..Len(body) : body[k].id = i /\ ClaimsPayment(body[k], pend)
     THEN LET k == CHOOSE k \in 1..Len(body) :
                     body[k].id = i /\ ClaimsPayment(body[k], pend)
          IN << [pend[1] EXCEPT !.request = <<body[k]>>] >>
     ELSE map[i]]

\* super.handleRequest for a POST whose messages are known (SDK, JSON mode):
\* every request id is mapped to this response, then onmessage is called for
\* each message in turn, synchronously; the original handler starts the call
SuperHandlePost(r, rec, body, pend) ==
  /\ requestPaymentMap' = onmessage(requestPaymentMap, pend, body)
  /\ requestToStream' =
       [i \in CallIds |->
          IF \E k \in 1..Len(body) : body[k].id = i THEN r ELSE requestToStream[i]]
  /\ rpc' = rpc \cup { [req |-> r, idx |-> k, id |-> body[k].id,
                         tool |-> CalledTool(body[k]),
                         tracked |-> ClaimsPayment(body[k], pend)] : k \in 1..Len(body) }
  /\ http' = [http EXCEPT ![r] =
                [rec EXCEPT !.st = "open", !.forwarded = TRUE, !.body = <<>>]]

\* ----------------------------------------------------------- handleRequest
\* the JSON-RPC messages received so far
Received ==
  LET S[r \in 0..MaxReq] == IF r = 0 THEN 0 ELSE S[r-1] + http[r].len
  IN S[MaxReq]

\* handleRequest(req, res, parsedBody) up to its first suspension
handleRequest(r, method, parsed, body, hdr) ==
  LET gated == method = "POST" /\ parsed /\ PricedCalls(body) # <<>>
      rec == [IdleReq EXCEPT !.method = method, !.parsed = parsed,
                             !.hdr = IF gated THEN hdr ELSE "unread",
                             !.body = body, !.len = Len(body),
                             !.priced = PricedCalls(body)]
      tc == toolCall(body)
      toolName == body[tc].name[1]
      toolPrice == toolPricing[toolName][1]
      decodedPayment == decodePayment(hdr, r)
      paymentRequirements == getPaymentRequirementsForTool(toolName, toolPrice)
      selected == findMatchingPaymentRequirements(paymentRequirements, decodedPayment)
  IN
  /\ UNCHANGED otherVars
  /\ http[r].st = "idle"
  /\ \A q \in ReqIds : q < r => http[q].st # "idle"
  /\ Received + Len(body) <= MaxCalls
  /\ currentResponse' = <<r>>
  /\ UNCHANGED << settlementMap, responsePaymentHeaders, responseMap, sends,
                  settleLog, fwdLog >>
  /\ IF method # "POST"
     THEN \* super.handleRequest: the SDK opens the standalone SSE stream
          LET w == writeHead(r, TRUE, responsePaymentHeaders)
          IN /\ http' = [http EXCEPT ![r] =
                           [rec EXCEPT !.st = "stream", !.forwarded = TRUE,
                                       !.status = 200, !.xpr = w.xpr, !.body = <<>>]]
             /\ UNCHANGED << pendingPayment, requestPaymentMap, requestToStream,
                             rpc, verifyLog >>
     ELSE IF ~parsed
     THEN \* super.handleRequest: the SDK reads and parses the raw body itself
          /\ http' = [http EXCEPT ![r] =
                        [rec EXCEPT !.st = "reading", !.forwarded = TRUE]]
          /\ UNCHANGED << pendingPayment, requestPaymentMap, requestToStream,
                          rpc, verifyLog >>
     ELSE IF tc = 0
     THEN /\ SuperHandlePost(r, rec, body, pendingPayment)
          /\ UNCHANGED << pendingPayment, verifyLog >>
     ELSE IF hdr \in {"absent", "multi"}
     THEN /\ http' = [http EXCEPT ![r] =
                        Reject402(rec, r, toolName, "X-PAYMENT header is required")]
          /\ UNCHANGED << pendingPayment, requestPaymentMap, requestToStream,
                          rpc, verifyLog >>
     ELSE IF DecodeThrows(hdr)
     THEN /\ http' = [http EXCEPT ![r] =
                        Reject402(rec, r, toolName, "Invalid payment header")]
          /\ UNCHANGED << pendingPayment, requestPaymentMap, requestToStream,
                          rpc, verifyLog >>
     ELSE IF RequirementsThrow(toolPrice)
     THEN \* thrown inside the try, caught, and thrown again while the 402 is built
          /\ http' = [http EXCEPT ![r] =
                        Reject402(rec, r, toolName, "conversion error")]
          /\ UNCHANGED << pendingPayment, requestPaymentMap, requestToStream,
                          rpc, verifyLog >>
     ELSE IF selected = <<>>
     THEN /\ http' = [http EXCEPT ![r] =
                        Reject402(rec, r, toolName,
                                  "Unable to find matching payment requirements")]
          /\ UNCHANGED << pendingPayment, requestPaymentMap, requestToStream,
                          rpc, verifyLog >>
     ELSE \* await verify(decodedPayment, selectedPaymentRequirements)
          /\ http' = [http EXCEPT ![r] = [rec EXCEPT !.st = "verifying"]]
          /\ verifyLog' = verifyLog \cup
               { [req |-> r, payment |-> decodedPayment, requirement |-> selected[1],
                   result |-> "pending"] }
          /\ UNCHANGED << pendingPayment, requestPaymentMap, requestToStream, rpc >>

\* the facilitator's answers to verify
VerifyOutcomes == {"valid", "invalid", "throw"}

\* handleRequest resumed after `await verify(...)`
verifyReturn(r, outcome) ==
  LET rec == http[r]
      body == rec.body
      toolName == body[toolCall(body)].name[1]
      toolPrice == toolPricing[toolName][1]
      decodedPayment == decodePayment(rec.hdr, r)
      selected == findMatchingPaymentRequirements(
                    getPaymentRequirementsForTool(toolName, toolPrice), decodedPayment)
      pend == << [payment |-> decodedPayment, toolName |-> toolName,
                  toolPrice |-> toolPrice, req |-> r, request |-> <<>>] >>
  IN
  /\ UNCHANGED otherVars
  /\ rec.st = "verifying"
  /\ verifyLog' = { IF v.req = r THEN [v EXCEPT !.result = outcome] ELSE v :
                      v \in verifyLog }
  /\ UNCHANGED << currentResponse, settlementMap, responsePaymentHeaders,
                  responseMap, sends, settleLog, fwdLog >>
  /\ CASE outcome = "invalid" ->
            /\ http' = [http EXCEPT ![r] = Reject402(rec, r, toolName, "invalidReason")]
            /\ UNCHANGED << pendingPayment, requestPaymentMap, requestToStream, rpc >>
       [] outcome = "throw" ->
            /\ http' = [http EXCEPT ![r] = Reject402(rec, r, toolName, "error.message")]
            /\ UNCHANGED << pendingPayment, requestPaymentMap, requestToStream, rpc >>
       [] OTHER ->
            /\ pendingPayment' = pend
            /\ SuperHandlePost(r, [rec EXCEPT !.verified = selected], body, pend)

\* the SDK has read the raw body of a POST that came without parsedBody and
\* dispatches its messages
sdkBodyRead(r) ==
  /\ UNCHANGED otherVars
  /\ http[r].st = "reading"
  /\ SuperHandlePost(r, http[r], http[r].body, pendingPayment)
  /\ UNCHANGED << pendingPayment, currentResponse, settlementMap,
                  responsePaymentHeaders, responseMap, sends, verifyLog,
                  settleLog, fwdLog >>


\* -------------------------------------------------------------------- send
\* a JSON-RPC response or error produced by the RPC layer for a call;
\* data stands for the payload the handler computed for that very call
\* (it names the call: its request, its place in the body, its tool, and
\* whether the wrapper recorded a payment for it)
Response(c, kind) ==
  [id |-> c.id, kind |-> kind, data |-> c, x402Settlement |-> <<>>]

isJSONRPCError(message) == message.kind = "error"
isJSONRPCResponse(message) == message.kind = "result"

\* super.send(message) of the SDK in JSON response mode: the response is kept
\* until every request id of the same HTTP response has one, then the head
\* (through the writeHead hook) and the body are written and the ids forgotten.
\* A message whose id has no stream, or whose connection is gone, is written
\* nowhere.  map is responsePaymentHeaders at the time of the call.
superSend(message, map) ==
  LET id == message.id
      r == requestToStream[id]
      rm == [responseMap EXCEPT ![id] = <<message>>]
      related == { i \in CallIds : requestToStream[i] = r }
      w == writeHead(r, TRUE, map)
  IN
  /\ fwdLog' = fwdLog \cup {message}
  /\ IF r = 0 \/ http[r].st # "open"
     THEN /\ responsePaymentHeaders' = map
          /\ UNCHANGED << http, responseMap, requestToStream >>
     ELSE IF \A i \in related : rm[i] # <<>>
     THEN /\ responsePaymentHeaders' = w.map
          /\ http' = [http EXCEPT ![r] =
                        [@ EXCEPT !.st = "responded", !.status = 200, !.xpr = w.xpr,
                                  !.ended = TRUE,
                                  !.out = { rm[i][1] : i \in related }]]
          /\ responseMap' = [i \in CallIds |-> IF i \in related THEN <<>> ELSE rm[i]]
          /\ requestToStream' =
               [i \in CallIds |-> IF i \in related THEN 0 ELSE requestToStream[i]]
     ELSE /\ responsePaymentHeaders' = map
          /\ responseMap' = rm
          /\ UNCHANGED << http, requestToStream >>

\* settlePayment before `await settle(...)`: <<error>> when it returns a
\* SettlementInfo with an error without calling settle, <<>> when it calls settle
settlePaymentError(paymentInfo, response) ==
  LET originalRequest == paymentInfo.request
      toolName == originalRequest[1].name[1]
      toolPrice == toolPricing[toolName][1]
  IN IF isJSONRPCError(response) THEN <<"Response is an error">>
     ELSE IF originalRequest = <<>> \/ ~isToolCallParams(originalRequest[1])
     THEN <<"Invalid request: missing tool name">>
     ELSE IF toolPricing[toolName] = <<>>
     THEN <<"No pricing found for tool">>
     ELSE IF RequirementsThrow(toolPrice)
     THEN <<"conversion error">>
     ELSE IF findMatchingPaymentRequirements(
               getPaymentRequirementsForTool(toolName, toolPrice),
               paymentInfo.payment) = <<>>
     THEN <<"Unable to find matching payment requirements">>
     ELSE <<>>

\* the requirement settlePayment passes to settle
settleRequirement(paymentInfo) ==
  LET toolName == paymentInfo.request[1].name[1]
  IN findMatchingPaymentRequirements(
       getPaymentRequirementsForTool(toolName, toolPricing[toolName][1]),
       paymentInfo.payment)[1]

\* faulty variant of needsSettlement: an existing SettlementRecord is not looked at
needsSettlement_always(message) == requestPaymentMap[message.id] # <<>>

\* the guard of send() under which it settles
needsSettlement(message) ==
  /\ requestPaymentMap[message.id] # <<>>
  /\ settlementMap[message.id] = <<>>

\* send(message) up to its first suspension on the facilitator
send(message) ==
  LET id == message.id
      paymentInfo == requestPaymentMap[id][1]
      err == settlePaymentError(paymentInfo, message)
  IN
  IF needsSettlement(message)
  THEN IF err # <<>>
       THEN /\ settlementMap' = [settlementMap EXCEPT ![id] =
                                   << [transactionHash |-> <<>>, error |-> err] >>]
            /\ superSend(message, responsePaymentHeaders)
            /\ UNCHANGED << sends, settleLog >>
       ELSE /\ sends' = sends \cup { [msg |-> message, info |-> paymentInfo] }
            /\ settleLog' = settleLog \cup
                 { [id |-> id, call |-> message.data, payment |-> paymentInfo.payment,
                    requirement |-> settleRequirement(paymentInfo),
                    result |-> "pending"] }
            /\ UNCHANGED << settlementMap, responsePaymentHeaders, http,
                            responseMap, requestToStream, fwdLog >>
  ELSE /\ superSend(message, responsePaymentHeaders)
       /\ UNCHANGED << settlementMap, sends, settleLog >>

\* the RPC layer finishes the call c and sends its response or error
HandlerKinds == {"result", "error"}

handlerDone(c, kind) ==
  /\ UNCHANGED otherVars
  /\ c \in rpc
  /\ rpc' = rpc \ {c}
  /\ send(Response(c, kind))
  /\ UNCHANGED << pendingPayment, currentResponse, requestPaymentMap, verifyLog >>

\* the facilitator's answers to settle: a receipt, or an exception
SettleOutcomes == {"ok", "throw"}

\* faulty variant of withSettlement: the settlement object is added to every result,
\* also when the SettlementInfo carries no transaction hash
withSettlement_always(message, settlementInfo) ==
  IF isJSONRPCResponse(message)
  THEN [message EXCEPT !.x402Settlement =
          << [transactionHash |-> IF settlementInfo.transactionHash = <<>> THEN 0
                                  ELSE settlementInfo.transactionHash[1],
              settled |-> TRUE] >>]
  ELSE message

\* faulty variant of withSettlement: the response is forwarded as it came
withSettlement_never(message, settlementInfo) == message

\* the x402Settlement object send() adds to a successful result
withSettlement(message, settlementInfo) ==
  IF isJSONRPCResponse(message) /\ settlementInfo.transactionHash # <<>>
  THEN [message EXCEPT !.x402Settlement =
          << [transactionHash |-> settlementInfo.transactionHash[1], settled |-> TRUE] >>]
  ELSE message

\* the response object settlePayment registers the evidence against
evidenceTarget == currentResponse

\* settlePayment resumed after `await settle(...)`, and the rest of send()
settleReturn(s, outcome) ==
  LET id == s.msg.id
      settleResponse == Receipt(s.info.payment)
      target == evidenceTarget
      map == IF outcome = "ok" /\ target # <<>>
             THEN [responsePaymentHeaders EXCEPT ![target[1]] =
                     << settleResponseHeader(settleResponse) >>]
             ELSE responsePaymentHeaders
      settlementInfo ==
        IF outcome = "ok"
        THEN [transactionHash |-> <<settleResponse.transaction>>, error |-> <<>>]
        ELSE [transactionHash |-> <<>>, error |-> <<"settle failed">>]
  IN
  /\ UNCHANGED otherVars
  /\ s \in sends
  /\ sends' = sends \ {s}
  /\ settlementMap' = [settlementMap EXCEPT ![id] = <<settlementInfo>>]
  /\ superSend(withSettlement(s.msg, settlementInfo), map)
  /\ settleLog' = { IF e.call = s.msg.data THEN [e EXCEPT !.result = outcome] ELSE e :
                      e \in settleLog }
  /\ UNCHANGED << pendingPayment, currentResponse, requestPaymentMap, rpc, verifyLog >>

\* the caller's connection closes before the response is written (SDK: the
\* stream of the response is dropped)
connectionClose(r) ==
  /\ UNCHANGED otherVars
  /\ http[r].st = "open"
  /\ http' = [http EXCEPT ![r].st = "closed"]
  /\ UNCHANGED << pendingPayment, currentResponse, requestPaymentMap, settlementMap,
                  responsePaymentHeaders, requestToStream, responseMap, rpc, sends,
                  verifyLog, settleLog, fwdLog >>

\* ------------------------------------------------------------ specification
Next ==
  \/ \E r \in ReqIds, body \in Bodies, hdr \in HeaderKinds :
       handleRequest(r, "POST", TRUE, body, hdr)
  \/ \E r \in ReqIds, body \in Bodies, hdr \in HeaderKinds :
       handleRequest(r, "POST", FALSE, body, hdr)
  \/ \E r \in ReqIds, hdr \in HeaderKinds : handleRequest(r, "GET", FALSE, <<>>, hdr)
  \/ \E r \in ReqIds, o \in VerifyOutcomes : verifyReturn(r, o)
  \/ \E r \in ReqIds : sdkBodyRead(r)
  \/ \E c \in rpc, k \in HandlerKinds : handlerDone(c, k)
  \/ \E s \in sends, o \in SettleOutcomes : settleReturn(s, o)
  \/ \E r \in ReqIds : connectionClose(r)

Spec == Init /\ [][Next]_vars

\* the facilitator answers every verify and every settle, the RPC layer
\* answers every call, and the SDK finishes reading a body it started to read;
\* callers may or may not send further requests or drop their connections
Fairness ==
  /\ WF_vars(\E r \in ReqIds, o \in VerifyOutcomes : verifyReturn(r, o))
  /\ WF_vars(\E r \in ReqIds : sdkBodyRead(r))
  /\ WF_vars(\E c \in rpc, k \in HandlerKinds : handlerDone(c, k))
  /\ WF_vars(\E x \in sends, o \in SettleOutcomes : settleReturn(x, o))

FairSpec == Spec /\ Fairness


\* ================================================================== claims
\* vocabulary of the claims
Arrived(r) == http[r].st # "idle"

\* the requirement list the transport advertises for an operation of the
\* Pricing Table (empty when its price does not convert)
RequirementsOf(n) ==
  IF n = "A" THEN << [scheme |-> "exact", network |-> "base-sepolia",
                      maxAmountRequired |-> 10000, resource |-> "A"] >>
  ELSE IF n = "B" THEN << [scheme |-> "exact", network |-> "base-sepolia",
                           maxAmountRequired |-> 20000, resource |-> "B"] >>
  ELSE <<>>

\* verify answered isValid=true in request r for the requirement of tool n
VerifiedFor(r, n) ==
  /\ http[r].verified # <<>>
  /\ http[r].verified = RequirementsOf(n)
  /\ \E v \in verifyLog : v.req = r /\ v.payment.nonce = r /\ <<v.requirement>> = RequirementsOf(n)

\* C1: a call to a priced operation reaches the RPC layer only if verify
\* returned isValid=true, in the same HTTP request, against the requirement
\* of that very operation (every priced call of a batch included).  Stated
\* for the requests whose body handleRequest was given.
C1_DeliveredOnlyIfVerified ==
  \A c \in rpc :
     (http[c.req].parsed /\ c.tool # <<>> /\ InPricingTable(c.tool[1]))
        => VerifiedFor(c.req, c.tool[1])

\* the request r was handed a parsed body that names a priced operation and
\* its X-PAYMENT header is absent or multi-valued
NoProofForPriced(r) ==
  /\ Arrived(r)
  /\ http[r].method = "POST"
  /\ http[r].parsed
  /\ http[r].priced # <<>>
  /\ http[r].hdr \in {"absent", "multi"}

\* the response of r is a complete HTTP 402 whose accepts list is exactly the
\* requirements of the (first) priced operation, verify was never invoked for r
\* and no message of r went to the RPC layer
Answered402Unforwarded(r) ==
  /\ http[r].st = "rejected"
  /\ http[r].status = 402
  /\ http[r].ended
  /\ http[r].accepts # <<>>
  /\ http[r].accepts = RequirementsOf(http[r].priced[1])
  /\ ~http[r].forwarded
  /\ \A v \in verifyLog : v.req # r
  /\ \A c \in rpc : c.req # r

\* C2 as stated: every request that names a priced operation and has no
\* usable X-PAYMENT header is answered with HTTP 402 carrying the requirements
\* of that operation, without verify and without forwarding (read here for
\* the requests whose parsed body was handed to handleRequest).
C2_Original ==
  \A r \in ReqIds : NoProofForPriced(r) => Answered402Unforwarded(r)

\* C2 (amended): the same, for requests whose parsed body was handed to
\* handleRequest and whose first priced operation has a price that converts
\* to an atomic amount.
C2_NoProof402 ==
  \A r \in ReqIds :
     (NoProofForPriced(r) /\ RequirementsOf(http[r].priced[1]) # <<>>)
        => Answered402Unforwarded(r)

\* C2 witness: a batch whose second message is the priced call was rejected
C2_Witness ==
  \E r \in ReqIds :
     /\ NoProofForPriced(r)
     /\ http[r].len = 2
     /\ http[r].priced = <<"B">>
     /\ Answered402Unforwarded(r)


\* the callIds of payment-tracked calls for which the RPC layer sent a
\* JSON-RPC error
TrackedErrorIds ==
  { m.id : m \in { x \in fwdLog : x.kind = "error" /\ x.data.tracked } }

\* C3 (no charge on failure): for every callId whose outgoing message is a
\* JSON-RPC error, settle is never invoked for that callId, a SettlementRecord
\* with an error is stored, and the error is forwarded unmodified.
C3_NoChargeOnFailure ==
  \A i \in TrackedErrorIds :
     /\ \A e \in settleLog : e.id # i
     /\ settlementMap[i] # <<>>
     /\ settlementMap[i][1].error # <<>>
     /\ \A m \in fwdLog : (m.id = i /\ m.kind = "error") => m.x402Settlement = <<>>

\* C4: settle is invoked at most once per callId, in every interleaving of
\* send() invocations.
C4_SettleOncePerCallId ==
  \A i \in CallIds : Cardinality({ e \in settleLog : e.id = i }) <= 1

\* C5: when requests with their own valid proofs are in flight together, each
\* call is settled against the proof presented by its own HTTP request
\* (the proof of request r carries nonce r; e.call.req is the request of the
\* call whose response triggered the settlement).
C5_SettledAgainstOwnProof ==
  \A e \in settleLog :
     http[e.call.req].verified # <<>> => e.payment.nonce = e.call.req


\* the settle invocation e, pending in this state, ends with outcome o in the step
SettleEnds(e, o) ==
  /\ e \in settleLog
  /\ e.result = "pending"
  /\ [e EXCEPT !.result = o] \in settleLog'

\* what is handed to super.send for the call c in the step
ForwardedFor(c) == { m \in fwdLog' : m.data = c /\ m \notin fwdLog }

\* in the step, send() handles the successful response m of a payment-tracked
\* call and settlePayment fails before it reaches settle
FailsBeforeSettle(m) ==
  /\ m \in fwdLog' /\ m \notin fwdLog
  /\ m.kind = "result"
  /\ requestPaymentMap[m.id] # <<>>
  /\ settlementMap[m.id] = <<>>
  /\ \A e \in settleLog : e.call # m.data

ErrorRecorded(map, id) ==
  /\ map[id] # <<>>
  /\ map[id][1].error # <<>>
  /\ map[id][1].transactionHash = <<>>

\* C6: when the settlement of a successful response fails (settle throws, or
\* settlePayment fails before calling it), send() records a SettlementRecord
\* carrying the error and hands exactly that response, with no settlement
\* field, to the underlying transport.
C6_SettlementFailureKeepsResult ==
  [][ /\ \A e \in settleLog :
           SettleEnds(e, "throw") =>
              /\ ForwardedFor(e.call) = { Response(e.call, "result") }
              /\ ErrorRecorded(settlementMap', e.id)
      /\ \A m \in fwdLog' :
           FailsBeforeSettle(m) =>
              /\ m = Response(m.data, "result")
              /\ ErrorRecorded(settlementMap', m.id) ]_vars

\* C6 witness: settle threw for a call, and a batch call to the tool without a
\* usable price failed before settle; both results were forwarded as they came
C6_Witness ==
  /\ \E e \in settleLog :
        /\ e.result = "throw"
        /\ Response(e.call, "result") \in fwdLog
        /\ ErrorRecorded(settlementMap, e.id)
  /\ \E m \in fwdLog :
        /\ m.kind = "result" /\ m.data.tracked /\ m.data.tool = <<"bad">>
        /\ m.x402Settlement = <<>>
        /\ ErrorRecorded(settlementMap, m.id)

\* the response send() must forward once settle returned the receipt for e
Settled(e) ==
  [Response(e.call, "result") EXCEPT !.x402Settlement =
     << [transactionHash |-> Receipt(e.payment).transaction, settled |-> TRUE] >>]

Evidence(r) ==
  IF responsePaymentHeaders[r] # <<>> THEN responsePaymentHeaders[r]
  ELSE http[r].xpr

\* C8: when the settlement of a call succeeds, its evidence is registered
\* against the response object of the HTTP request that carried the call and
\* against no other, whatever requests arrived in between.  Stated for the
\* calls settled with the proof of their own request (the receipt names the
\* proof, so the evidence found on a response names the settlement).
C8_EvidenceOnOwnResponse ==
  \A e \in settleLog :
     \A r \in ReqIds :
        (/\ e.result = "ok"
         /\ e.payment.nonce = e.call.req
         /\ Evidence(r) = << settleResponseHeader(Receipt(e.payment)) >>)
           => r = e.call.req

\* C9: the HTTP response that carries the result of a successfully settled
\* call is written with the X-PAYMENT-RESPONSE header.
C9_HeaderWritten ==
  \A e \in settleLog :
     \A r \in ReqIds :
        (e.result = "ok" /\ http[r].st = "responded" /\ Settled(e) \in http[r].out)
           => http[r].xpr # <<>>

\* C10: the HTTP response that carries the JSON-RPC error of a priced,
\* verified call has no X-PAYMENT-RESPONSE header, in every interleaving
\* with other requests.  Stated for the responses that carry nothing but
\* such errors (a batch response may also carry a settled result).
C10_NoHeaderOnError ==
  \A r \in ReqIds :
     (/\ http[r].st = "responded"
      /\ \A m \in http[r].out :
            /\ m.kind = "error"
            /\ m.data.tracked
            /\ m.data.req = r
            /\ http[r].verified # <<>>)
        => http[r].xpr = <<>>

\* the request r is a POST whose body names no operation of the pricing table
NoPricedCall(r) ==
  /\ Arrived(r)
  /\ http[r].method = "POST"
  /\ http[r].priced = <<>>

\* C11: a request whose body holds no call to a priced operation is forwarded
\* to the underlying transport, is never answered 402, and neither verify nor
\* settle is invoked for it or for the responses of its calls, also while a
\* verified payment of another request is held.
C11_UnpricedPassThrough ==
  \A r \in ReqIds :
     NoPricedCall(r) =>
        /\ http[r].forwarded
        /\ http[r].status # 402
        /\ \A v \in verifyLog : v.req # r
        /\ \A e \in settleLog : e.call.req # r

\* no message of request r went to the RPC layer, and none came back from it
NeverDispatched(r) ==
  /\ ~http[r].forwarded
  /\ \A c \in rpc : c.req # r
  /\ \A x \in sends : x.msg.data.req # r
  /\ \A m \in fwdLog : m.data.req # r

\* no pending payment and no CallRecord holds the proof of request r
NoPaymentHeldFor(r) ==
  /\ pendingPayment # <<>> => pendingPayment[1].req # r
  /\ \A i \in CallIds : requestPaymentMap[i] # <<>> => requestPaymentMap[i][1].req # r

GateRead(r, h) ==
  /\ Arrived(r)
  /\ http[r].method = "POST"
  /\ http[r].parsed
  /\ http[r].priced # <<>>
  /\ http[r].hdr = h

\* the response of r is a complete HTTP 402
Complete402(r) ==
  /\ http[r].st = "rejected"
  /\ http[r].status = 402
  /\ http[r].ended

\* C13 as stated: if decoding the X-PAYMENT header fails, the request ends in
\* HTTP 402, verify is never invoked for it and it is not forwarded.
C13_Original ==
  \A r \in ReqIds :
     GateRead(r, "garbage") =>
        /\ Complete402(r)
        /\ \A v \in verifyLog : v.req # r
        /\ NeverDispatched(r)

\* C13 (amended): the same, for requests whose first priced operation has a
\* price that converts to an atomic amount.
C13_DecodeFailure402 ==
  \A r \in ReqIds :
     (GateRead(r, "garbage") /\ RequirementsOf(http[r].priced[1]) # <<>>) =>
        /\ Complete402(r)
        /\ \A v \in verifyLog : v.req # r
        /\ NeverDispatched(r)

\* C13 witness: a request with an undecodable header was answered 402
C13_Witness ==
  \E r \in ReqIds :
     /\ GateRead(r, "garbage")
     /\ Complete402(r)
     /\ http[r].error = "Invalid payment header"
     /\ http[r].accepts = RequirementsOf(http[r].priced[1])

\* the proof request r presented decodes, the requirements of its operation
\* can be computed, and none of them has the proof's scheme and network
ProofMatchesNone(r) ==
  /\ \E h \in HeaderKinds \ {"absent", "multi", "garbage"} :
        /\ GateRead(r, h)
        /\ \A i \in 1..Len(RequirementsOf(http[r].priced[1])) :
              \/ RequirementsOf(http[r].priced[1])[i].scheme # decodePayment(h, r).scheme
              \/ RequirementsOf(http[r].priced[1])[i].network # decodePayment(h, r).network
  /\ RequirementsOf(http[r].priced[1]) # <<>>

\* C14: if the decoded proof matches none of the requirements computed for the
\* named operation, the request ends in HTTP 402 carrying those requirements
\* in accepts, and verify is never invoked for that request.
C14_NoMatch402 ==
  \A r \in ReqIds :
     ProofMatchesNone(r) =>
        /\ Complete402(r)
        /\ http[r].accepts = RequirementsOf(http[r].priced[1])
        /\ \A v \in verifyLog : v.req # r

\* C14 witness: a proof for another network was answered 402
C14_Witness ==
  \E r \in ReqIds :
     /\ ProofMatchesNone(r)
     /\ Complete402(r)
     /\ http[r].error = "Unable to find matching payment requirements"
     /\ http[r].accepts # <<>>

\* C15: every payment failure answered with 402 (proof absent, proof
\* malformed, requirement mismatch, verification failed) ends its HTTP
\* request: the underlying transport's handleRequest is not called for it, no
\* call of it reaches the RPC layer and no JSON-RPC message is produced for it.
C15_RejectionIsTerminal ==
  \A r \in ReqIds :
     http[r].status = 402 =>
        /\ http[r].st \in {"rejected", "threw"}
        /\ http[r].out = {}
        /\ NeverDispatched(r)

\* C15 witness: one request rejected for its malformed proof and one rejected
\* after verify answered invalid
C15_Witness ==
  \E r, q \in ReqIds :
     /\ GateRead(r, "garbage") /\ Complete402(r)
     /\ Complete402(q)
     /\ \E v \in verifyLog : v.req = q /\ v.result = "invalid"

\* the gate of request r builds the requirements of an operation whose
\* configured price does not convert to an atomic amount
BadPriceAtGate(r) ==
  /\ Arrived(r)
  /\ http[r].method = "POST"
  /\ http[r].parsed
  /\ http[r].priced # <<>>
  /\ RequirementsOf(http[r].priced[1]) = <<>>

\* C16: when the price of the named operation cannot be converted,
\* handleRequest fails with an exception and no HTTP 402 status is written to
\* the response, whether the proof is absent, undecodable or decodable.
C16_BadPriceThrowsNo402 ==
  \A r \in ReqIds :
     BadPriceAtGate(r) =>
        /\ http[r].st = "threw"
        /\ http[r].status # 402

\* the request r is not a POST, or came to handleRequest without a parsed body
Ungated(r) ==
  /\ Arrived(r)
  /\ (http[r].method # "POST" \/ ~http[r].parsed)

\* C17: a request that is not a POST, or that comes without a parsed body, is
\* delegated to the underlying transport without a payment check: it is never
\* answered 402 and the facilitator is never invoked for it.  The settle
\* invocations counted are those for a call of the request that the wrapper
\* itself bound to a payment.
C17_UngatedNeverCharged ==
  \A r \in ReqIds :
     Ungated(r) =>
        /\ http[r].forwarded
        /\ http[r].status # 402
        /\ \A v \in verifyLog : v.req # r
        /\ \A e \in settleLog : ~(e.call.req = r /\ e.call.tracked)

\* the settle invocation e starts in the step
SettleStarts(e) ==
  /\ e \in settleLog'
  /\ e \notin settleLog
  /\ e.result = "pending"

\* C18: if the connection of a verified paid request closes before the RPC
\* layer has produced the response of its call, settle is never invoked for
\* that call, also when the handler later completes with a result.  Stated
\* for the calls settled with the proof of their own request.
C18_NoSettleAfterClose ==
  [][ \A e \in settleLog' :
         (/\ SettleStarts(e)
          /\ e.call.tracked
          /\ e.payment.nonce = e.call.req
          /\ http[e.call.req].verified # <<>>)
            => http[e.call.req].st # "closed" ]_vars

\* the response of the verified paid request r has been written and carries
\* the responses of its own payment-tracked calls
PaidCycleDone(r) ==
  /\ http[r].st = "responded"
  /\ http[r].verified # <<>>
  /\ \A m \in http[r].out : m.data.req = r /\ m.data.tracked

\* C19: once the response of a paid call has been sent, the transport holds
\* no pending payment and no CallRecord of that call's request.
C19_NothingRetained ==
  \A r \in ReqIds : PaidCycleDone(r) => NoPaymentHeldFor(r)

\* C20: there is at most one CallRecord per callId (requestPaymentMap is a
\* map), and a callId bound to a verified payment is never bound again: a
\* later inbound call with the same callId does not replace the record.
C20_CallIdBoundOnce ==
  [][ \A i \in CallIds :
         requestPaymentMap[i] # <<>> => requestPaymentMap'[i] = requestPaymentMap[i] ]_vars

\* C21: a verified pending payment is bound to at most one callId: no two
\* CallRecords hold the same proof.
C21_PendingClaimedOnce ==
  \A i, j \in CallIds :
     (i # j /\ requestPaymentMap[i] # <<>> /\ requestPaymentMap[j] # <<>>)
        => requestPaymentMap[i][1].payment # requestPaymentMap[j][1].payment

\* in the step, the RPC layer calls send() with the response of call c
SendCalled(c) == c \in rpc /\ c \notin rpc'

Terminal(r) ==
  \/ http[r].priced = <<>> /\ http[r].forwarded
  \/ Complete402(r)
  \/ http[r].st = "responded"

\* handleRequest threw on an unconvertible price, or the caller dropped the
\* connection
Abandoned(r) == http[r].st \in {"threw", "closed"}

\* C23: when the facilitator answers every verify and settle and the RPC
\* layer answers every call, every HTTP request eventually reaches a terminal
\* state (pass-through, 402, responded), and every send() suspended on the
\* facilitator eventually hands its message to the underlying transport.
\* Requests whose handling threw on a bad price or whose connection closed
\* are left out.
C23_EveryRequestTerminates ==
  /\ \A r \in ReqIds : Arrived(r) ~> (Terminal(r) \/ Abandoned(r))
  /\ \A r \in ReqIds, k \in 1..MaxBatch :
        (\E x \in sends : x.msg.data.req = r /\ x.msg.data.idx = k)
           ~> (\E m \in fwdLog : m.data.req = r /\ m.data.idx = k)

\* the step writes the status line and headers of response r
HeadWritten(r) == http[r].status = 0 /\ http'[r].status # 0

\* C28: whenever the head of a response object that has settlement evidence
\* registered is written, the written headers carry X-PAYMENT-RESPONSE and no
\* evidence stays registered for that object afterwards, whatever the form
\* of the arguments writeHead is called with.
C28_HookOneShot ==
  [][ \A r \in ReqIds :
         (HeadWritten(r) /\ responsePaymentHeaders[r] # <<>>) =>
            /\ http'[r].xpr # <<>>
            /\ responsePaymentHeaders'[r] = <<>> ]_vars

\* the response to the call of settle invocation e, as send() holds or has
\* forwarded it
ResponseOf(e) ==
  IF e.result = "pending"
  THEN { x.msg : x \in { y \in sends : y.msg.data = e.call } }
  ELSE { m \in fwdLog : m.data = e.call }

\* C29: settle is invoked only for a proof that verify has found valid, and
\* only on the successful response of a call that was dispatched and claimed
\* the payment; the response is forwarded only once settle has ended.
C29_SettleInOrder ==
  \A e \in settleLog :
     /\ \E v \in verifyLog : v.payment = e.payment /\ v.result = "valid"
     /\ http[e.call.req].forwarded
     /\ e.call.tracked
     /\ e.call \notin rpc
     /\ ResponseOf(e) # {}
     /\ \A m \in ResponseOf(e) : isJSONRPCResponse(m)
     /\ e.result = "pending" => \A m \in fwdLog : m.data # e.call

\* a call of a priced tool that the wrapper saw while there was no pending
\* payment to claim
Unclaimed(c) == c.tool # <<>> /\ toolPricing[c.tool[1]] # <<>> /\ ~c.tracked

\* C30: a priced tools/call observed while no pending payment exists is
\* handed to the original handler, and its response is forwarded without
\* settle having been invoked for it and without a settlement object.
C30_UnclaimedCallUnsettled ==
  /\ \A x \in sends : ~Unclaimed(x.msg.data)
  /\ \A e \in settleLog : ~Unclaimed(e.call)
  /\ \A m \in fwdLog : Unclaimed(m.data) => m.x402Settlement = <<>>

\* ------------------------------------------------ client: fetchWithPayment
\* the most entries the caller's headers hold
MaxHeaders == 2

\* header names as the caller spells them, and values
HeaderNames == {"Accept", "accept", "x-custom"}
HeaderValues == {"application/json, text/event-stream", "application/xml"}
HeaderEntries == HeaderNames \X HeaderValues

\* HTTP header names are compared without regard to case
Lower(name) == IF name = "Accept" THEN "accept" ELSE name

\* a JavaScript object is the sequence of its <<key, value>> properties, keys
\* distinct, in insertion order
IsObject(entries) ==
  \A i, j \in 1..Len(entries) : i # j => entries[i][1] # entries[j][1]

EntryLists == UNION { [1..k -> HeaderEntries] : k \in 0..MaxHeaders }

\* HeadersInit | undefined: a Headers instance (names kept in lower case, one
\* entry per name), an array of [key, value] tuples, or a plain object
HeadersInits ==
  { [form |-> "undefined", entries |-> <<>>] }
  \cup { [form |-> "Headers", entries |-> e] :
           e \in { x \in EntryLists :
                     IsObject(x) /\ \A k \in 1..Len(x) : x[k][1] = Lower(x[k][1]) } }
  \cup { [form |-> "array", entries |-> e] : e \in EntryLists }
  \cup { [form |-> "object", entries |-> e] : e \in { x \in EntryLists : IsObject(x) } }

\* obj[key] = value
Put(obj, key, value) ==
  IF \E k \in 1..Len(obj) : obj[k][1] = key
  THEN [k \in 1..Len(obj) |-> IF obj[k][1] = key THEN <<key, value>> ELSE obj[k]]
  ELSE Append(obj, <<key, value>>)

\* convertHeaders(headers): each of the three branches assigns the entries
\* to a fresh object one after the other, under the name each entry has
convertHeaders(headers) ==
  LET F[i \in 0..Len(headers.entries)] ==
        IF i = 0 THEN <<>>
        ELSE Put(F[i-1], headers.entries[i][1], headers.entries[i][2])
  IN IF headers.form = "undefined" THEN <<>> ELSE F[Len(headers.entries)]

\* { ...convertHeaders(init?.headers), Accept: 'application/json, text/event-stream' }
fetchHeaders(init) ==
  Put(convertHeaders(init.headers), "Accept", "application/json, text/event-stream")

\* the X-PAYMENT-RESPONSE headers the server transport emits: settlePayment
\* encodes the receipt settle resolved with for the proof of a request
ServerPaymentResponses ==
  { settleResponseHeader(Receipt(decodePayment("proof", r))) : r \in ReqIds }

\* the value of the X-PAYMENT-RESPONSE header of a response.  <<>>: no such
\* header (get returns null); <<"">>: the empty string; <<"garbage">>: a string
\* that is no base64; <<"base64", t>>: the base64 encoding of the text t.
\* A text that is the JSON of an object is written as that object (a record),
\* any other text as [text |-> ...]
PaymentResponses ==
  { <<>>, <<"">>, <<"garbage">>,
    <<"base64", [text |-> "not json"]>>,
    <<"base64", [text |-> "null"]>>,
    <<"base64", [text |-> "5"]>>,
    <<"base64", [other |-> "x"]>>,
    <<"base64", [txHash |-> ""]>>,
    <<"base64", [txHash |-> "0x123"]>> }
  \cup ServerPaymentResponses

\* response.headers.get('X-PAYMENT-RESPONSE') is truthy
Truthy(paymentResponse) == paymentResponse # <<>> /\ paymentResponse[1] # ""

\* atob(paymentResponse) throws
AtobThrows(paymentResponse) == paymentResponse[1] # "base64"

\* JSON.parse(text) throws
JSONParseThrows(text) == "text" \in DOMAIN text /\ text.text = "not json"

\* decoded.txHash throws (decoded is null)
ReadThrows(decoded) == "text" \in DOMAIN decoded /\ decoded.text = "null"

\* decoded.txHash, <<>> when undefined
txHash(decoded) == IF "txHash" \in DOMAIN decoded THEN <<decoded.txHash>> ELSE <<>>

\* faulty variant of callbackCalls: the callback is called for every header that
\* decodes, with undefined when there is no hash
callbackCalls_unguarded(paymentResponse) ==
  IF ~Truthy(paymentResponse) THEN <<>>
  ELSE IF AtobThrows(paymentResponse) THEN <<>>
  ELSE IF JSONParseThrows(paymentResponse[2]) \/ ReadThrows(paymentResponse[2]) THEN <<>>
  ELSE IF txHash(paymentResponse[2]) = <<>> THEN <<"undefined">>
  ELSE txHash(paymentResponse[2])

\* the arguments paymentCallback is called with while the header is handled
callbackCalls(paymentResponse) ==
  IF ~Truthy(paymentResponse) THEN <<>>
  ELSE IF AtobThrows(paymentResponse) THEN <<>>
  ELSE IF JSONParseThrows(paymentResponse[2]) \/ ReadThrows(paymentResponse[2]) THEN <<>>
  ELSE IF txHash(paymentResponse[2]) \in {<<>>, <<"">>} THEN <<>>
  ELSE txHash(paymentResponse[2])

\* the catch block runs: console.error('Failed to decode payment response')
decodeFails(paymentResponse, callbackThrows) ==
  /\ Truthy(paymentResponse)
  /\ \/ AtobThrows(paymentResponse)
     \/ JSONParseThrows(paymentResponse[2])
     \/ ReadThrows(paymentResponse[2])
     \/ callbackCalls(paymentResponse) # <<>> /\ callbackThrows

\* RequestInit as the transport of the SDK or another caller passes it
RequestInits ==
  [method : {"GET", "POST"}, body : {<<>>, <<"body">>}, headers : HeadersInits]

\* fetchWithPayment(input, init) up to `await x402Fetch(input, {...init, headers})`
fetchWithPayment ==
  /\ clientFetch.pc = "called"
  /\ clientFetch' =
       [clientFetch EXCEPT !.pc = "awaiting",
          !.passed = << [method |-> clientFetch.init.method,
                         body |-> clientFetch.init.body,
                         headers |-> fetchHeaders(clientFetch.init)] >>]
  /\ UNCHANGED << serverVars, apiKeyHook, construction, mcpRequest >>

\* x402Fetch resolves with a response: the header is handled and the
\* response returned
x402FetchReturn(paymentResponse, callbackThrows) ==
  /\ clientFetch.pc = "awaiting"
  /\ clientFetch' =
       [clientFetch EXCEPT !.pc = "returned",
          !.response = <<paymentResponse>>,
          !.callback = callbackCalls(paymentResponse),
          !.logged = decodeFails(paymentResponse, callbackThrows),
          !.returned = <<paymentResponse>>]
  /\ UNCHANGED << serverVars, apiKeyHook, construction, mcpRequest >>

\* x402Fetch rejects: fetchWithPayment rejects with the same error
x402FetchThrow ==
  /\ clientFetch.pc = "awaiting"
  /\ clientFetch' = [clientFetch EXCEPT !.pc = "rejected"]
  /\ UNCHANGED << serverVars, apiKeyHook, construction, mcpRequest >>

ClientInit ==
  /\ ServerInit
  /\ apiKeyHook = <<>>
  /\ construction = <<>>
  /\ mcpRequest = <<>>
  /\ clientFetch \in
       { [pc |-> "called", init |-> i, passed |-> <<>>, response |-> <<>>,
          callback |-> <<>>, logged |-> FALSE, returned |-> <<>>] :
         i \in RequestInits }

ClientNext ==
  \/ fetchWithPayment
  \/ \E p \in PaymentResponses, t \in BOOLEAN : x402FetchReturn(p, t)
  \/ x402FetchThrow

ClientSpec == ClientInit /\ [][ClientNext]_vars

\* ------------------------------------------------------- client: claims
\* the header decodes to JSON that has a txHash field
HasTxHashField(paymentResponse) ==
  /\ Truthy(paymentResponse)
  /\ paymentResponse[1] = "base64"
  /\ "txHash" \in DOMAIN paymentResponse[2]

\* C24 as stated: the payment callback is invoked exactly when the response
\* has an X-PAYMENT-RESPONSE header that decodes to JSON with a txHash field,
\* and the wrapper returns the response.
C24_Original ==
  clientFetch.pc = "returned" =>
     /\ (clientFetch.callback # <<>>) <=> HasTxHashField(clientFetch.response[1])
     /\ clientFetch.returned = clientFetch.response

\* C24: the payment callback is invoked, once and with the hash, exactly when
\* the response has an X-PAYMENT-RESPONSE header that decodes to JSON with a
\* txHash field that is not empty; with no header, with a header that does
\* not decode, or with an empty hash it is not invoked; a decoding error is
\* logged and swallowed; the wrapper returns the response in every case and
\* rejects only when the payment-enabled fetch has produced no response.
C24_CallbackOnTxHash ==
  /\ clientFetch.pc = "returned" =>
        LET p == clientFetch.response[1]
        IN /\ clientFetch.callback =
                IF HasTxHashField(p) /\ p[2].txHash # ""
                THEN <<p[2].txHash>> ELSE <<>>
           /\ clientFetch.returned = <<p>>
           /\ (Truthy(p) /\ p[1] = "garbage") => clientFetch.logged
  /\ clientFetch.pc = "rejected" => clientFetch.response = <<>>

\* a response whose header carries a hash has been returned and the callback
\* was called with that hash
C24_Witness ==
  /\ clientFetch.pc = "returned"
  /\ clientFetch.response = << <<"base64", [txHash |-> "0x123"]>> >>
  /\ clientFetch.callback = <<"0x123">>
  /\ clientFetch.returned = clientFetch.response

\* C25: the headers passed to the payment-enabled fetch hold an Accept header
\* and no Accept header, however its name is spelled, with a value other than
\* 'application/json, text/event-stream'; the method and the body are the
\* caller's; every other header the caller gave once is passed as given, and
\* no other header is added.
C25_AcceptReplaced ==
  clientFetch.pc # "called" =>
     LET p == clientFetch.passed[1]
         given == clientFetch.init.headers.entries
     IN /\ p.method = clientFetch.init.method
        /\ p.body = clientFetch.init.body
        /\ \E k \in 1..Len(p.headers) : Lower(p.headers[k][1]) = "accept"
        /\ \A k \in 1..Len(p.headers) :
              Lower(p.headers[k][1]) = "accept" =>
                 p.headers[k][2] = "application/json, text/event-stream"
        /\ \A i \in 1..Len(given) :
              (/\ Lower(given[i][1]) # "accept"
               /\ \A j \in 1..Len(given) : j # i => given[j][1] # given[i][1])
                 => \E k \in 1..Len(p.headers) : p.headers[k] = given[i]
        /\ \A k \in 1..Len(p.headers) :
              Lower(p.headers[k][1]) # "accept" =>
                 \E i \in 1..Len(given) : given[i][1] = p.headers[k][1]

\* ----------------------------------------------------- proxy: ApiKeyHook
\* the keys the hook is constructed with
ApiKeys == {"sk-1", "sk-2"}

\* header values: <<scheme, credentials>>; `Bearer ${apiKey}` is <<"Bearer", apiKey>>
AuthNames == {"Authorization", "authorization", "X-Custom-Header"}
AuthValues == {<<"Bearer", "old">>, <<"Basic", "sk-1">>}
AuthEntries == AuthNames \X AuthValues

\* the headers object of a requestContext
AuthObjects ==
  { x \in UNION { [1..k -> AuthEntries] : k \in 0..MaxHeaders } : IsObject(x) }

\* request.requestContext: undefined (<<>>), or an object with or without
\* headers and with or without another field
RequestContexts ==
  { <<>> } \cup
  { << [existingField |-> f, headers |-> h] >> :
      f \in {<<>>, <<"value">>},
      h \in { <<>> } \cup { <<o>> : o \in AuthObjects } }

\* the requests the passthrough server hands to the hook
HookRequests ==
  [method : {"tools/call", "tools/list", "initialize"}, id : {1},
   requestContext : RequestContexts]

\* request.requestContext?.headers, spread: the properties of the headers
\* object, none when there is no context or no headers
contextHeaders(request) ==
  IF request.requestContext = <<>> THEN <<>>
  ELSE IF request.requestContext[1].headers = <<>> THEN <<>>
  ELSE request.requestContext[1].headers[1]

\* faulty variant of withAuthorization: an Authorization the request already
\* has is kept
withAuthorization_keepExisting(request, apiKey) ==
  LET hs == contextHeaders(request)
  IN [request EXCEPT !.requestContext =
        << [existingField |-> IF request.requestContext = <<>> THEN <<>>
                              ELSE request.requestContext[1].existingField,
            headers |-> << IF \E k \in 1..Len(hs) : hs[k][1] = "Authorization"
                           THEN hs
                           ELSE Append(hs, <<"Authorization", <<"Bearer", apiKey>>>>) >>] >>]

\* modifiedRequest: { ...request, requestContext: { ...request.requestContext,
\*   headers: { ...request.requestContext?.headers, Authorization: `Bearer ${apiKey}` } } }
withAuthorization(request, apiKey) ==
  [request EXCEPT !.requestContext =
     << [existingField |-> IF request.requestContext = <<>> THEN <<>>
                           ELSE request.requestContext[1].existingField,
         headers |-> << Put(contextHeaders(request), "Authorization",
                            <<"Bearer", apiKey>>) >>] >>]

\* one of the three methods of the hook is called and returns
processRequest(name) ==
  /\ apiKeyHook.called = ""
  /\ apiKeyHook' =
       [apiKeyHook EXCEPT !.called = name,
          !.result = << [resultType |-> "continue",
                         request |-> withAuthorization(apiKeyHook.request,
                                                       apiKeyHook.apiKey)] >>]
  /\ UNCHANGED << serverVars, clientFetch, construction, mcpRequest >>

processToolCallRequest == processRequest("processToolCallRequest")
processToolsListRequest == processRequest("processToolsListRequest")
processInitializeRequest == processRequest("processInitializeRequest")

\* a hook constructed with a key, and a request about to be handed to it;
\* given is the request as the caller built it
HookInit ==
  /\ ServerInit
  /\ clientFetch = <<>>
  /\ construction = <<>>
  /\ mcpRequest = <<>>
  /\ apiKeyHook \in
       { [apiKey |-> k, request |-> q, given |-> q, called |-> "", result |-> <<>>] :
         k \in ApiKeys, q \in HookRequests }

HookNext ==
  \/ processToolCallRequest
  \/ processToolsListRequest
  \/ processInitializeRequest

HookSpec == HookInit /\ [][HookNext]_vars

\* C26: each of the three methods returns resultType 'continue' and a request
\* whose fields are those of the input, except that the headers of its
\* requestContext hold Authorization = 'Bearer <apiKey>' in place of any
\* Authorization the input had; every other header and every other field of
\* the requestContext is the input's, and the input object is as it was.
C26_AuthorizationInjected ==
  apiKeyHook.called # "" =>
     LET given == apiKeyHook.given
         out == apiKeyHook.result[1].request
         hs == out.requestContext[1].headers[1]
         old == contextHeaders(given)
     IN /\ apiKeyHook.result[1].resultType = "continue"
        /\ apiKeyHook.request = given
        /\ out.method = given.method /\ out.id = given.id
        /\ DOMAIN out = DOMAIN given
        /\ given.requestContext # <<>> =>
              out.requestContext[1].existingField = given.requestContext[1].existingField
        /\ given.requestContext = <<>> => out.requestContext[1].existingField = <<>>
        /\ IsObject(hs)
        /\ \E k \in 1..Len(hs) : hs[k] = <<"Authorization", <<"Bearer", apiKeyHook.apiKey>>>>
        /\ \A i \in 1..Len(old) :
              old[i][1] # "Authorization" => \E k \in 1..Len(hs) : hs[k] = old[i]
        /\ \A k \in 1..Len(hs) :
              hs[k][1] # "Authorization" => \E i \in 1..Len(old) : old[i] = hs[k]

\* a method has returned for a request that already had an Authorization
\* header and another header beside it
C26_Witness ==
  /\ apiKeyHook.called = "processToolsListRequest"
  /\ apiKeyHook.given.requestContext # <<>>
  /\ apiKeyHook.given.requestContext[1].existingField # <<>>
  /\ apiKeyHook.given.requestContext[1].headers =
       << << <<"Authorization", <<"Bearer", "old">>>>,
             <<"X-Custom-Header", <<"Basic", "sk-1">>>> >> >>
  /\ apiKeyHook.apiKey = "sk-2"

\* ------------------------------------------- construction of a transport
\* X402TransportOptions & StreamableHTTPServerTransportOptions as a caller
\* passes them (<<>>: the option is not given)
TransportOptions ==
  [payTo : {"0xabc", "0xABC"},
   toolPricing : {<<>>, <<"pricing">>},
   facilitator : {<<>>, <<"facilitator">>},
   sessionIdGenerator : {<<>>, <<"generator">>},
   enableJsonResponse : {<<>>, <<TRUE>>, <<FALSE>>}]

\* getAddress of viem: the checksummed form of an address
getAddress(address) == "0xABC"

\* options.enableJsonResponse ?? true
enableJsonResponse(options) ==
  IF options.enableJsonResponse = <<>> THEN TRUE ELSE options.enableJsonResponse[1]

\* new X402StreamableHTTPServerTransport(options): the options handed to the
\* constructor of the SDK's transport, and the fields set
X402StreamableHTTPServerTransport(options) ==
  [super |-> [sessionIdGenerator |-> options.sessionIdGenerator,
              enableJsonResponse |-> enableJsonResponse(options)],
   payTo |-> options.payTo,
   facilitator |-> options.facilitator,
   toolPricing |-> IF options.toolPricing = <<>> THEN <<"{}">> ELSE options.toolPricing]

\* a caller constructs the transport itself
constructor ==
  /\ construction.built = <<>>
  /\ construction' =
       [construction EXCEPT !.via = "constructor",
          !.built = << X402StreamableHTTPServerTransport(construction.options) >>]
  /\ UNCHANGED << serverVars, clientFetch, apiKeyHook, mcpRequest >>

\* makePaymentAwareServerTransport(payTo, toolPricing, options)
makePaymentAwareServerTransport ==
  /\ construction.built = <<>>
  /\ construction' =
       [construction EXCEPT !.via = "makePaymentAwareServerTransport",
          !.built = << X402StreamableHTTPServerTransport(
                         [payTo |-> getAddress(construction.options.payTo),
                          toolPricing |-> construction.options.toolPricing,
                          facilitator |-> construction.options.facilitator,
                          sessionIdGenerator |-> construction.options.sessionIdGenerator,
                          enableJsonResponse |-> construction.options.enableJsonResponse]) >>]
  /\ UNCHANGED << serverVars, clientFetch, apiKeyHook, mcpRequest >>

ConstructionInit ==
  /\ ServerInit
  /\ clientFetch = <<>>
  /\ apiKeyHook = <<>>
  /\ mcpRequest = <<>>
  /\ construction \in { [options |-> o, via |-> "", built |-> <<>>] : o \in TransportOptions }

ConstructionNext ==
  \/ constructor
  \/ makePaymentAwareServerTransport

ConstructionSpec == ConstructionInit /\ [][ConstructionNext]_vars

\* C27: every transport, made by the constructor or by
\* makePaymentAwareServerTransport, runs with enableJsonResponse = true,
\* whatever options the caller passes.
C27_AlwaysJsonResponse ==
  construction.built # <<>> => construction.built[1].super.enableJsonResponse

\* C31: the requirement passed to settle is the requirement the proof was
\* verified against, so a proof verified for one priced tool is never settled
\* for another priced tool.
C31_SettledAsVerified ==
  \A e \in settleLog :
     \E v \in verifyLog :
        /\ v.payment = e.payment
        /\ v.result = "valid"
        /\ v.requirement = e.requirement

\* C32: over the whole life of the transport every proof is passed to the
\* facilitator's settle at most once, however many ids it was bound to.
C32_ProofSettledOnce ==
  \A e1, e2 \in settleLog : e1.payment = e2.payment => e1 = e2

\* the call of a request that holds one priced call, for which the proof of
\* the request was verified and to which the wrapper bound the payment
VerifiedPaidCall(c) ==
  /\ http[c.req].verified # <<>>
  /\ Len(http[c.req].priced) = 1
  /\ c.tool = << http[c.req].verified[1].resource >>
  /\ c.tracked

\* C33: every successful response to a verified paid call is forwarded only
\* after settle was invoked for that call with the proof of its own request,
\* also when its id is the id of an earlier call that the transport has
\* completed.
C33_PaidCallSettled ==
  \A m \in fwdLog :
     (isJSONRPCResponse(m) /\ VerifiedPaidCall(m.data))
        => \E e \in settleLog :
              /\ e.call = m.data
              /\ e.payment.nonce = m.data.req
              /\ e.result # "pending"

\* request r arrives and is, in the same step, answered with a 402 or passed
\* through as unpriced
RejectedOrUnpricedAtArrival(r) ==
  /\ http[r].st = "idle"
  /\ \/ http'[r].st = "rejected"
     \/ http'[r].priced = <<>> /\ http'[r].forwarded

\* a call that is bound to a payment is running or being settled
PaidCallInFlight ==
  \/ \E c \in rpc : c.tracked
  \/ sends # {}

\* C34: while a paid call is in flight, a request that ends in a 402 and a
\* request that is passed through as unpriced leave the pending payment, the
\* call records, the settlement records, the evidence map and the response
\* object the next settlement targets as they were.
C34_RejectedAndUnpricedFrame ==
  [][ \A r \in ReqIds :
         (PaidCallInFlight /\ RejectedOrUnpricedAtArrival(r))
            => transportVars' = transportVars ]_vars

\* C35: end to end, when the fetch wrapper reads the X-PAYMENT-RESPONSE header
\* the server built from the receipt of a successful settle, it invokes the
\* payment callback with the transaction hash of that receipt.
C35_ReceiptReachesCallback ==
  \A r \in ReqIds :
     LET receipt == Receipt(decodePayment("proof", r))
     IN (/\ clientFetch.pc = "returned"
         /\ clientFetch.response = << settleResponseHeader(receipt) >>)
           => clientFetch.callback = << receipt.transaction >>

\* --------------------------- example server: dynamic payment middleware
\* config.payment.mcpPricing, and a tool that has no price
McpTools == {"list-todos", "add-todo", "ping"}

mcpPricing(toolName) ==
  IF toolName = "list-todos" THEN <<"$0.001">>
  ELSE IF toolName = "add-todo" THEN <<"$0.002">>
  ELSE <<>>

\* JSON-RPC messages: params is <<>> when the message has none
McpMessages ==
  [method : {"tools/call", "tools/list"},
   params : { <<>> } \cup { <<[name |-> n]>> : n \in McpTools }]

\* req.body after express.json(): undefined, one message, or a batch (array)
McpBodies ==
  { [form |-> "undefined", messages |-> <<>>] }
  \cup { [form |-> "object", messages |-> <<m>>] : m \in McpMessages }
  \cup { [form |-> "array", messages |-> b] :
           b \in UNION { [1..k -> McpMessages] : k \in 0..MaxBatch } }

\* extractToolNameFromMcpRequest(body), <<>> for null: body.method of an
\* array is undefined; reading it of undefined, or params.name without
\* params, throws and the catch returns null
extractToolNameFromMcpRequest(body) ==
  IF body.form = "undefined" THEN <<>>
  ELSE IF body.form = "array" THEN <<>>
  ELSE IF body.messages[1].method = "tools/call"
  THEN IF body.messages[1].params = <<>> THEN <<>>
       ELSE << body.messages[1].params[1].name >>
  ELSE <<>>

\* getMcpToolPrice(toolName), <<>> for null
getMcpToolPrice(toolName) == mcpPricing(toolName)

\* the middleware returned by createDynamicMcpPaymentMiddleware, up to
\* next() or to the call of the payment middleware of x402-express
dynamicMcpPaymentMiddleware ==
  LET toolName == extractToolNameFromMcpRequest(mcpRequest.body)
      price == IF toolName = <<>> THEN <<>> ELSE getMcpToolPrice(toolName[1])
  IN
  /\ mcpRequest.at = "middleware"
  /\ mcpRequest' =
       IF toolName = <<>> \/ price = <<>>
       THEN [mcpRequest EXCEPT !.at = "handler"]
       ELSE [mcpRequest EXCEPT !.at = "paymentMiddleware", !.price = price]
  /\ UNCHANGED << serverVars, clientFetch, apiKeyHook, construction >>

\* paymentMiddleware of x402-express: a 402 without a valid payment, next()
\* with one
paymentMiddleware ==
  /\ mcpRequest.at = "paymentMiddleware"
  /\ mcpRequest' =
       IF mcpRequest.payment = "valid"
       THEN [mcpRequest EXCEPT !.at = "handler", !.paid = mcpRequest.price]
       ELSE [mcpRequest EXCEPT !.at = "402"]
  /\ UNCHANGED << serverVars, clientFetch, apiKeyHook, construction >>

MiddlewareInit ==
  /\ ServerInit
  /\ clientFetch = <<>>
  /\ apiKeyHook = <<>>
  /\ construction = <<>>
  /\ mcpRequest \in
       { [body |-> b, payment |-> p, at |-> "middleware", price |-> <<>>,
          paid |-> <<>>] :
         b \in McpBodies, p \in {"absent", "invalid", "valid"} }

MiddlewareNext ==
  \/ dynamicMcpPaymentMiddleware
  \/ paymentMiddleware

MiddlewareSpec == MiddlewareInit /\ [][MiddlewareNext]_vars

\* the prices of the priced tools a body calls
PricesCalled(body) ==
  { mcpPricing(body.messages[k].params[1].name)[1] :
      k \in { j \in 1..Len(body.messages) :
                /\ body.messages[j].method = "tools/call"
                /\ body.messages[j].params # <<>>
                /\ mcpPricing(body.messages[j].params[1].name) # <<>> } }

\* C36: a request reaches the MCP handler without payment only when its body
\* holds no tools/call of a priced tool; a body that holds one, single
\* message or batch, reaches the handler only through the payment middleware,
\* with the price of a tool it calls.
C36_PricedCallsGated ==
  mcpRequest.at = "handler" =>
     IF PricesCalled(mcpRequest.body) = {}
     THEN mcpRequest.paid = <<>>
     ELSE /\ mcpRequest.paid # <<>>
          /\ mcpRequest.paid[1] \in PricesCalled(mcpRequest.body)

====
